---- MODULE Spec2Model ----
(***************************************************************************)
(* A model of js-util/query: the predicate tree (Query, CombinationBase,   *)
(* ConditionBase), the value extraction utilities (fetchNestedValue,       *)
(* getFieldValue) and the QueryType registry (QueryTypeHelper).            *)
(*                                                                         *)
(* JavaScript values are tagged records.  Strings are sequences of         *)
(* one-character strings, so that split, toUpperCase, toLowerCase and the  *)
(* regular-expression replace of toSqlString are computed, not assumed.    *)
(* Map objects and plain objects are sequences of <<key, value>> pairs in  *)
(* insertion order.                                                        *)
(***************************************************************************)
EXTENDS Integers, Sequences, FiniteSets, TLC

VARIABLES heap, last, nameToTypeMap, idToTypeMap, rewrites

vars == <<heap, last, nameToTypeMap, idToTypeMap, rewrites>>

----------------------------------------------------------------------------
(* Bounds of the model *)

\* the number of Query objects constructed in one behaviour
MaxNodes == 3
\* the longest children array handed to the array form of the constructor
MaxChildren == 2
\* the longest pre-split path handed to fetchNestedValue
MaxPath == 3
\* the largest number handed to fromID / fromTypeObject
MaxProbeId == 42
\* the number of nested replaceQuery frames after which the engine raises
\* RangeError (maximum call stack size exceeded)
StackLimit == 8
\* the number of replaceQuery calls made in one behaviour
MaxRewrites == 1

----------------------------------------------------------------------------
(* JavaScript values *)

Null == [t |-> "null"]
Undefined == [t |-> "undefined"]
Num(n) == [t |-> "number", n |-> n]
Str(s) == [t |-> "string", s |-> s]
Bool(b) == [t |-> "boolean", b |-> b]
\* a Map object: entries in insertion order
MapOf(entries) == [t |-> "map", m |-> entries]
\* a plain object: own properties in insertion order
Obj(props) == [t |-> "object", p |-> props]
\* an array
Arr(elems) == [t |-> "array", a |-> elems]
\* a reference to the Query object heap[id]
Ref(id) == [t |-> "query", id |-> id]
\* a raised exception
Throw(name, about) == [t |-> "throw", error |-> name, about |-> about]

IsNullish(v) == v = Null \/ v = Undefined
IsMap(v) == v.t = "map"
IsArray(v) == v.t = "array"
IsQuery(v) == v.t = "query"
IsThrow(v) == "t" \in DOMAIN v /\ v.t = "throw"

\* entries as a sequence of pairs: the value of the last pair with this key
RECURSIVE PairsGet(_, _)
PairsGet(pairs, k) ==
    IF pairs = <<>> THEN Undefined
    ELSE IF pairs[Len(pairs)][1] = k THEN pairs[Len(pairs)][2]
    ELSE PairsGet(SubSeq(pairs, 1, Len(pairs) - 1), k)

PairsHas(pairs, k) == \E i \in 1..Len(pairs) : pairs[i][1] = k

\* Map.prototype.get
MapGet(map, k) == PairsGet(map.m, k)

----------------------------------------------------------------------------
(* Strings: sequences of one-character strings *)

LowerLetters ==
    <<"a","b","c","d","e","f","g","h","i","j","k","l","m",
      "n","o","p","q","r","s","t","u","v","w","x","y","z">>
UpperLetters ==
    <<"A","B","C","D","E","F","G","H","I","J","K","L","M",
      "N","O","P","Q","R","S","T","U","V","W","X","Y","Z">>
Digits == <<"0","1","2","3","4","5","6","7","8","9">>

IsDigit(c) == \E i \in 1..Len(Digits) : Digits[i] = c

UpperChar(c) ==
    IF \E i \in 1..Len(LowerLetters) : LowerLetters[i] = c
    THEN UpperLetters[CHOOSE i \in 1..Len(LowerLetters) : LowerLetters[i] = c]
    ELSE c

LowerChar(c) ==
    IF \E i \in 1..Len(UpperLetters) : UpperLetters[i] = c
    THEN LowerLetters[CHOOSE i \in 1..Len(UpperLetters) : UpperLetters[i] = c]
    ELSE c

\* String.prototype.toUpperCase / toLowerCase
ToUpperCase(s) == [i \in 1..Len(s) |-> UpperChar(s[i])]
ToLowerCase(s) == [i \in 1..Len(s) |-> LowerChar(s[i])]

\* String.prototype.split(sep) for a one-character separator
RECURSIVE SplitFrom(_, _, _)
SplitFrom(s, sep, cur) ==
    IF s = <<>> THEN <<cur>>
    ELSE IF Head(s) = sep THEN <<cur>> \o SplitFrom(Tail(s), sep, <<>>)
    ELSE SplitFrom(Tail(s), sep, Append(cur, Head(s)))

Split(s, sep) == SplitFrom(s, sep, <<>>)

\* the decimal numeral of a natural number
RECURSIVE NatToString(_)
NatToString(n) ==
    IF n < 10 THEN <<Digits[n + 1]>>
    ELSE NatToString(n \div 10) \o <<Digits[(n % 10) + 1]>>

\* Number.prototype.toString for the integers of the model
IntToString(n) == IF n < 0 THEN <<"-">> \o NatToString(0 - n) ELSE NatToString(n)

\* isNaN(Number(key)) for a key of letters, digits and underscores: Number
\* parses the empty string as 0 and a digit string as its value
IsNaNNumber(s) == \E i \in 1..Len(s) : ~IsDigit(s[i])

\* the names used in the model
S_age == <<"a","g","e">>
S_name == <<"n","a","m","e">>
S_this == <<"t","h","i","s">>
S_key == <<"_","k","e","y">>
S_val == <<"_","v","a","l">>
S_size == <<"s","i","z","e">>
S_length == <<"l","e","n","g","t","h">>
S_a == <<"a">>
S_b == <<"b">>
S_c == <<"c">>
S_0 == <<"0">>
S_1 == <<"1">>
S_2 == <<"2">>

----------------------------------------------------------------------------
(* src/util/fetchNestedValue.ts, src/util/getFieldValue.ts *)

\* value.toString() for the values that are used as paths and type objects
ToStringOf(v) ==
    CASE v.t = "string" -> v.s
      [] v.t = "number" -> IntToString(v.n)
      [] v.t = "boolean" -> IF v.b THEN <<"t","r","u","e">> ELSE <<"f","a","l","s","e">>
      [] OTHER -> <<"[","o","b","j","e","c","t","]">>

\* obj[key]: a property read.  A Map object keeps its entries in an internal
\* slot, not in properties: the only property of a Map that the names of the
\* model can hit is the accessor "size".
PropertyGet(obj, key) ==
    LET k == ToStringOf(key) IN
    CASE obj.t = "object" -> PairsGet(obj.p, k)
      [] obj.t = "map" -> IF k = S_size THEN Num(Len(obj.m)) ELSE Undefined
      [] obj.t = "string" -> IF k = S_length THEN Num(Len(obj.s)) ELSE Undefined
      [] obj.t = "array" -> IF k = S_length THEN Num(Len(obj.a)) ELSE Undefined
      [] OTHER -> Undefined

\* The walk of fetchNestedValue over the working array `arr`.  The result
\* carries the array as the walk leaves it: path.shift() removes the head of
\* the array it is given, and the recursive call is given the same array.
RECURSIVE FetchWalk(_, _, _)
FetchWalk(obj, arr, fallback) ==
    IF IsNullish(obj) THEN [val |-> fallback, arr |-> arr]
    ELSE LET key == IF arr = <<>> THEN Undefined ELSE Head(arr)
             rest == IF arr = <<>> THEN <<>> ELSE Tail(arr)
             val == PropertyGet(obj, key)
         IN  IF IsNullish(key) THEN [val |-> fallback, arr |-> rest]
             ELSE IF IsNullish(val) THEN [val |-> fallback, arr |-> rest]
             ELSE IF Len(rest) > 0 THEN FetchWalk(val, rest, fallback)
             ELSE [val |-> val, arr |-> rest]

\* fetchNestedValue(obj, path, fallback): `val` is the value returned and
\* `path` is the caller's path argument as the call leaves it.  A path that
\* is not an array is split into a fresh array; an array is walked in place.
fetchNestedValue(obj, path, fallback) ==
    IF IsNullish(obj) THEN [val |-> fallback, path |-> path]
    ELSE IF IsArray(path)
         THEN LET w == FetchWalk(obj, path.a, fallback)
              IN  [val |-> w.val, path |-> Arr(w.arr)]
         ELSE LET parts == Split(ToStringOf(path), ".")
                  w == FetchWalk(obj, [i \in 1..Len(parts) |-> Str(parts[i])], fallback)
              IN  [val |-> w.val, path |-> path]

\* getFieldValue(t, field)
getFieldValue(t, field) ==
    IF field = Null \/ ToLowerCase(field.s) = S_this THEN t
    ELSE IF IsMap(t) THEN MapGet(t, field.s)
    ELSE Null

----------------------------------------------------------------------------
(* QueryType and QueryTypeHelper *)

QT_AND == 0
QT_OR == 1
QT_NOT == 2
QT_EQUALS == 10
QT_NOT_EQUALS == 11
QT_LESS_THAN == 20
QT_LESS_THAN_OR_EQUALS == 21
QT_MORE_THAN == 30
QT_MORE_THAN_OR_EQUALS == 31
QT_LIKE == 40

\* the members of the enum in declaration order
QueryTypeMembers ==
    << <<(<<"A","N","D">>), QT_AND>>,
       <<(<<"O","R">>), QT_OR>>,
       <<(<<"N","O","T">>), QT_NOT>>,
       <<(<<"E","Q","U","A","L","S">>), QT_EQUALS>>,
       <<(<<"N","O","T","_","E","Q","U","A","L","S">>), QT_NOT_EQUALS>>,
       <<(<<"L","E","S","S","_","T","H","A","N">>), QT_LESS_THAN>>,
       <<(<<"L","E","S","S","_","T","H","A","N","_","O","R","_","E","Q","U","A","L","S">>),
         QT_LESS_THAN_OR_EQUALS>>,
       <<(<<"M","O","R","E","_","T","H","A","N">>), QT_MORE_THAN>>,
       <<(<<"M","O","R","E","_","T","H","A","N","_","O","R","_","E","Q","U","A","L","S">>),
         QT_MORE_THAN_OR_EQUALS>>,
       <<(<<"L","I","K","E">>), QT_LIKE>> >>

\* the kinds: the numeric values of the enum
QueryKinds == {QueryTypeMembers[i][2] : i \in 1..Len(QueryTypeMembers)}

\* The compiled enum object: a numeric enum holds, besides name -> id, the
\* reverse mapping id -> name; Object.keys lists the integer keys first.
QueryTypeObject ==
    [i \in 1..Len(QueryTypeMembers) |->
        <<IntToString(QueryTypeMembers[i][2]), Str(QueryTypeMembers[i][1])>>]
    \o [i \in 1..Len(QueryTypeMembers) |->
        <<QueryTypeMembers[i][1], Num(QueryTypeMembers[i][2])>>]

\* Object.keys(QueryType).filter(key => isNaN(Number(key)))
RECURSIVE EnumNameKeys(_)
EnumNameKeys(pairs) ==
    IF pairs = <<>> THEN <<>>
    ELSE IF IsNaNNumber(Head(pairs)[1])
         THEN <<Head(pairs)[1]>> \o EnumNameKeys(Tail(pairs))
         ELSE EnumNameKeys(Tail(pairs))

\* the two tables initializeTypeMaps builds
BuiltNameToType ==
    LET keys == EnumNameKeys(QueryTypeObject)
    IN  MapOf([i \in 1..Len(keys) |-> <<keys[i], PairsGet(QueryTypeObject, keys[i])>>])

BuiltIdToType ==
    LET keys == EnumNameKeys(QueryTypeObject)
    IN  MapOf([i \in 1..Len(keys) |->
                <<PairsGet(QueryTypeObject, keys[i]), PairsGet(QueryTypeObject, keys[i])>>])

\* initializeTypeMaps(): the tables after the call
initializeTypeMaps(maps) ==
    IF maps.name = Null \/ maps.id = Null
    THEN IF maps.name = Null
         THEN [name |-> BuiltNameToType, id |-> BuiltIdToType]
         ELSE maps
    ELSE maps

\* this.idToTypeMap?.get(id) and this.nameToTypeMap?.get(name.toUpperCase())
fromID(maps, id) ==
    LET m == initializeTypeMaps(maps)
    IN  IF m.id = Null THEN Undefined ELSE MapGet(m.id, id)

fromNameNoFold(maps, name) ==
    LET m == initializeTypeMaps(maps)
    IN  IF m.name = Null THEN Undefined ELSE MapGet(m.name, name.s)

fromName(maps, name) ==
    LET m == initializeTypeMaps(maps)
    IN  IF m.name = Null THEN Undefined ELSE MapGet(m.name, ToUpperCase(name.s))

\* fromTypeObject(type): null for null, TypeError for undefined (the read of
\* type.toString), the kind found, or Error when the table has no match
fromTypeObject(maps, type) ==
    IF type = Null THEN Null
    ELSE LET mType == IF type.t = "number" THEN fromID(maps, type)
                      ELSE IF type = Undefined THEN Throw("TypeError", type)
                      ELSE fromName(maps, Str(ToStringOf(type)))
         IN  IF mType = Undefined THEN Throw("Error", type) ELSE mType

----------------------------------------------------------------------------
(* The state *)

NoCall == [op |-> "none"]

Init ==
    /\ heap = <<>>
    /\ last = NoCall
    /\ nameToTypeMap = Null
    /\ idToTypeMap = Null
    /\ rewrites = 0

----------------------------------------------------------------------------
(* Calls of fetchNestedValue *)

PathKeys == {Str(S_a), Str(S_b), Null}

RECURSIVE SeqsUpTo(_, _)
SeqsUpTo(S, n) ==
    IF n = 0 THEN {<<>>}
    ELSE LET shorter == SeqsUpTo(S, n - 1)
         IN  shorter \cup {Append(s, x) : s \in {q \in shorter : Len(q) = n - 1}, x \in S}

FetchRoots ==
    { Null,
      Num(5),
      Obj(<< <<S_a, Obj(<< <<S_b, Num(5)>> >>)>> >>),
      Obj(<< <<S_a, Obj(<< <<S_b, Obj(<< <<S_a, Num(7)>> >>)>>, <<S_c, Null>> >>)>>,
             <<S_b, Num(1)>> >>),
      MapOf(<< <<S_a, Num(5)>> >>) }

FetchPaths ==
    {Arr(p) : p \in SeqsUpTo(PathKeys, MaxPath)}
    \cup {Str(<<"a",".","b">>), Str(<<"a",".","c">>), Str(<<"a">>), Str(<<"a",".","b",".","c">>)}

FetchNestedValue ==
    \E root \in FetchRoots, path \in FetchPaths, fallback \in {Null, Num(-1)} :
        LET r == fetchNestedValue(root, path, fallback)
        IN  /\ last' = [op |-> "fetchNestedValue", root |-> root, path |-> path,
                        fallback |-> fallback, pathAfter |-> r.path, result |-> r.val]
            /\ UNCHANGED <<heap, nameToTypeMap, idToTypeMap, rewrites>>

NextFetch == FetchNestedValue

SpecFetch == Init /\ [][NextFetch]_vars

\* C7: fetchNestedValue called with a pre-split sequence of keys leaves the
\* caller's sequence as it was, whether the walk succeeds or falls back.
C7_PathArrayUnchanged ==
    (last.op = "fetchNestedValue" /\ IsArray(last.path)) =>
        last.pathAfter = last.path

----------------------------------------------------------------------------
(* Calls of QueryTypeHelper *)

ProbeIds == {Num(n) : n \in (0 - 1)..MaxProbeId}

ProbeNames ==
    { Str(<<"A","N","D">>), Str(<<"a","n","d">>), Str(<<"A","n","d">>),
      Str(<<"o","r">>), Str(<<"N","o","t">>),
      Str(<<"e","q","u","a","l","s">>), Str(<<"L","I","K","E">>),
      Str(<<"l","e","s","s","_","t","h","a","n">>),
      Str(<<"N","O","T","_","E","Q","U","A","L">>),
      Str(<<"f","o","o">>), Str(<<>>), Str(<<"1","0">>), Str(<<"0">>) }

ProbeObjects == ProbeIds \cup ProbeNames \cup {Null, Undefined, Bool(TRUE)}

Registry == [name |-> nameToTypeMap, id |-> idToTypeMap]

RegistryAfterInit ==
    /\ nameToTypeMap' = initializeTypeMaps(Registry).name
    /\ idToTypeMap' = initializeTypeMaps(Registry).id

FromID ==
    \E id \in ProbeIds :
        /\ last' = [op |-> "fromID", arg |-> id, result |-> fromID(Registry, id)]
        /\ RegistryAfterInit
        /\ UNCHANGED <<heap, rewrites>>

FromName ==
    \E name \in ProbeNames :
        /\ last' = [op |-> "fromName", arg |-> name, result |-> fromName(Registry, name)]
        /\ RegistryAfterInit
        /\ UNCHANGED <<heap, rewrites>>

FromTypeObject ==
    \E type \in ProbeObjects :
        /\ last' = [op |-> "fromTypeObject", arg |-> type,
                    result |-> fromTypeObject(Registry, type)]
        \* a null or undefined type returns or throws before any table is read
        /\ IF IsNullish(type)
           THEN UNCHANGED <<nameToTypeMap, idToTypeMap, rewrites>>
           ELSE RegistryAfterInit
        /\ UNCHANGED <<heap, rewrites>>

NextType == FromID \/ FromName \/ FromTypeObject

SpecType == Init /\ [][NextType]_vars

\* the kinds whose canonical name equals name when case is ignored
KindsNamed(name) ==
    {QueryTypeMembers[i][2] : i \in
        {j \in 1..Len(QueryTypeMembers) :
            ToLowerCase(QueryTypeMembers[j][1]) = ToLowerCase(name)}}

\* C9 as stated: fromTypeObject returns the matching kind or fails with an
\* error; it never returns anything that is not a kind without raising.
C9_NeverReturnsNonKind ==
    last.op = "fromTypeObject" =>
        \/ IsThrow(last.result)
        \/ last.result \in {Num(k) : k \in QueryKinds}

\* C9 as amended: fromTypeObject returns null for null without raising; it
\* resolves a number through the ids and any other value through its string
\* form and the names, case ignored, returning the matching kind, and fails
\* with an error for every other value that matches no kind.
C9_ResolvesOrThrowsButForNull ==
    last.op = "fromTypeObject" =>
        IF last.arg = Null THEN last.result = Null
        ELSE IF last.arg.t = "number"
        THEN IF last.arg.n \in QueryKinds
             THEN last.result = last.arg
             ELSE IsThrow(last.result)
        ELSE IF last.arg.t = "string" /\ KindsNamed(last.arg.s) # {}
        THEN last.result \in {Num(k) : k \in KindsNamed(last.arg.s)}
        ELSE IsThrow(last.result)

\* a name in lower case resolved, after the tables were built by a first call
C9_Witness ==
    /\ last.op = "fromTypeObject"
    /\ last.arg = Str(<<"l","e","s","s","_","t","h","a","n">>)
    /\ last.result = Num(QT_LESS_THAN)
    /\ nameToTypeMap # Null

----------------------------------------------------------------------------
(* The Query objects: heap[id] is the object with identity id *)

\* a ConditionBase object
Condition(field, argName, defaultArgMap) ==
    [kind |-> "condition", fieldName |-> field, argName |-> argName,
     argMap |-> defaultArgMap]

\* a CombinationBase object; children is the _children array
Combination(children, argMap) ==
    [kind |-> "combination", children |-> children, argMap |-> argMap]

isBasicOperator(h, id) == h[id].kind = "condition"
isCombinationOperator(h, id) == h[id].kind = "combination"

\* fieldName(), argumentName(), defaultArgumentMap(): null unless overridden
\* by ConditionBase
fieldName(h, id) == IF isBasicOperator(h, id) THEN h[id].fieldName ELSE Null
argumentName(h, id) == IF isBasicOperator(h, id) THEN h[id].argName ELSE Null
defaultArgumentMap(h, id) == IF isBasicOperator(h, id) THEN h[id].argMap ELSE Null

\* childrenQuery(): the live _children array of a combination
childrenQuery(h, id) == IF isCombinationOperator(h, id) THEN h[id].children ELSE Null

\* the values JavaScript treats as false in a condition
Falsy(v) ==
    \/ IsNullish(v)
    \/ v = Str(<<>>)
    \/ v = Num(0)
    \/ v = Bool(FALSE)

\* defaultArgumentValue(): map && name ? map.get(name) : null
defaultArgumentValue(h, id) ==
    LET map == defaultArgumentMap(h, id)
        name == argumentName(h, id)
    IN  IF ~Falsy(map) /\ ~Falsy(name) THEN MapGet(map, name.s) ELSE Null

\* The constructor of CombinationBase: the new object, or the Error thrown.
\* The array form keeps the array it is given; the three-argument form
\* collects those of arg1, arg2 that are Query objects.
CombinationBaseConstructor(arg1, arg2, arg3) ==
    IF IsArray(arg1) /\ IsMap(arg2)
    THEN Combination(arg1.a, arg2)
    ELSE IF IsMap(arg3)
         THEN Combination(
                  (IF IsQuery(arg1) THEN <<arg1>> ELSE <<>>)
                  \o (IF IsQuery(arg2) THEN <<arg2>> ELSE <<>>),
                  arg3)
         ELSE Throw("Error", <<arg1, arg2, arg3>>)

----------------------------------------------------------------------------
(* Evaluation: ConditionBase and CombinationBase test functions *)

\* getArgumentValue(argMap, argName)
getArgumentValue(argMap, argName) ==
    IF Falsy(argMap) \/ Falsy(argName) THEN Null
    ELSE fetchNestedValue(argMap, argName, Null).val

\* a === b for the values of the model
StrictEquals(a, b) == a = b

\* ConditionBase.testValues(fieldValue, argValue)
testValues(fieldValue, argValue) ==
    IF argValue = Null THEN StrictEquals(fieldValue, Null)
    ELSE StrictEquals(argValue, fieldValue)

\* this._fieldName?.toLowerCase(): undefined for a null field name
FieldNameLower(node) ==
    IF IsNullish(node.fieldName) THEN Undefined
    ELSE Str(ToLowerCase(node.fieldName.s))

\* ConditionBase.getAndTestFieldValue(t, argMap)
getAndTestFieldValue(node, t, argMap) ==
    LET argValue == getArgumentValue(argMap, node.argName)
    IN  IF IsMap(t) /\ FieldNameLower(node) = Str(S_key)
        THEN \E i \in 1..Len(t.m) : testValues(Str(t.m[i][1]), argValue)
        ELSE IF IsMap(t) /\ FieldNameLower(node) = Str(S_val)
        THEN \E i \in 1..Len(t.m) : testValues(t.m[i][2], argValue)
        ELSE testValues(getFieldValue(t, node.fieldName), argValue)

\* a combination that starts from "matched"
BlankCombinationResultTrue == TRUE

\* "let result = false": the result of a combination before any child is tried
BlankCombinationResult == FALSE

RECURSIVE testWithArgMap(_, _, _, _)
RECURSIVE CombinationTestLoop(_, _, _, _, _, _)

\* the for loop of CombinationBase.testWithArgMap from child i on
CombinationTestLoop(h, children, i, result, t, argMap) ==
    IF i > Len(children) THEN result
    ELSE IF testWithArgMap(h, children[i].id, t, argMap)
         THEN CombinationTestLoop(h, children, i + 1, TRUE, t, argMap)
         ELSE FALSE

\* testWithArgMap(t, argMap) of the object id
testWithArgMap(h, id, t, argMap) ==
    IF isBasicOperator(h, id)
    THEN getAndTestFieldValue(h[id], t, argMap)
    ELSE CombinationTestLoop(h, h[id].children, 1, BlankCombinationResult, t, argMap)

\* test(t): both families pass their own _argMap
test(h, id, t) == testWithArgMap(h, id, t, h[id].argMap)

RECURSIVE CombinationTestTraceNoStop(_, _, _, _, _)

\* a loop that tries every child whatever the earlier ones returned
CombinationTestTraceNoStop(h, children, i, t, argMap) ==
    IF i > Len(children) THEN <<>>
    ELSE <<i>> \o CombinationTestTraceNoStop(h, children, i + 1, t, argMap)

RECURSIVE CombinationTestTrace(_, _, _, _, _)

\* the child positions on which the for loop of CombinationBase.testWithArgMap
\* calls testWithArgMap, in the order of the calls, from child i on: the loop
\* calls child i, goes on to i + 1 if it matched and returns if it did not
CombinationTestTrace(h, children, i, t, argMap) ==
    IF i > Len(children) THEN <<>>
    ELSE IF testWithArgMap(h, children[i].id, t, argMap)
         THEN <<i>> \o CombinationTestTrace(h, children, i + 1, t, argMap)
         ELSE <<i>>

\* the direct child calls made by testWithArgMap(t, argMap) of the object id
\* (a condition makes none)
childCalls(h, id, t, argMap) ==
    IF isBasicOperator(h, id) THEN <<>>
    ELSE CombinationTestTrace(h, h[id].children, 1, t, argMap)

----------------------------------------------------------------------------
(* Introspection: fieldQueryMap, queryArgumentsArray, keyValuesMap *)

\* if (!ret.has(key)) ret.set(key, []); ret.get(key).push(value), on the
\* entries of a Map
BucketPush(pairs, key, value) ==
    IF PairsHas(pairs, key)
    THEN [i \in 1..Len(pairs) |->
            IF pairs[i][1] = key THEN <<key, Append(pairs[i][2], value)>> ELSE pairs[i]]
    ELSE Append(pairs, <<key, <<value>> >>)

\* a condition that files itself under its field name whatever the name is
ConditionFieldQueryMapUnchecked(h, id, ret) ==
    BucketPush(ret, IF IsNullish(fieldName(h, id)) THEN <<>> ELSE fieldName(h, id).s, Ref(id))

\* the isBasicOperator branch of fieldQueryMap
ConditionFieldQueryMap(h, id, ret) ==
    IF ~Falsy(fieldName(h, id))
    THEN BucketPush(ret, fieldName(h, id).s, Ref(id))
    ELSE ret

RECURSIVE fieldQueryMap(_, _, _)
RECURSIVE FieldQueryMapChildren(_, _, _, _)

\* children.forEach(child => child.fieldQueryMap(ret)) from child i on
FieldQueryMapChildren(h, children, i, ret) ==
    IF i > Len(children) THEN ret
    ELSE FieldQueryMapChildren(h, children, i + 1, fieldQueryMap(h, children[i].id, ret))

\* fieldQueryMap(ret): the entries of ret after the call
fieldQueryMap(h, id, ret) ==
    IF isBasicOperator(h, id) THEN ConditionFieldQueryMap(h, id, ret)
    ELSE IF isCombinationOperator(h, id)
         THEN FieldQueryMapChildren(h, childrenQuery(h, id), 1, ret)
         ELSE ret

RECURSIVE queryArgumentsArrayInto(_, _, _)
RECURSIVE QueryArgumentsChildren(_, _, _, _)

QueryArgumentsChildren(h, children, i, ret) ==
    IF i > Len(children) THEN ret
    ELSE QueryArgumentsChildren(h, children, i + 1,
                                queryArgumentsArrayInto(h, children[i].id, ret))

\* _queryArgumentsArray(ret): the elements of ret after the call
queryArgumentsArrayInto(h, id, ret) ==
    IF isBasicOperator(h, id)
    THEN IF defaultArgumentValue(h, id) # Null
         THEN Append(ret, defaultArgumentValue(h, id))
         ELSE ret
    ELSE IF isCombinationOperator(h, id)
         THEN QueryArgumentsChildren(h, childrenQuery(h, id), 1, ret)
         ELSE ret

\* queryArgumentsArray()
queryArgumentsArray(h, id) == queryArgumentsArrayInto(h, id, <<>>)

\* ConditionBase._keyValuesMap(mapToReturn)
ConditionKeyValuesMap(node, mapToReturn) ==
    IF Falsy(node.fieldName) THEN mapToReturn
    ELSE LET val == IF ~Falsy(node.argMap) /\ ~Falsy(node.argName)
                    THEN MapGet(node.argMap, node.argName.s)
                    ELSE Null
         IN  MapOf(BucketPush(mapToReturn.m, node.fieldName.s, val))

RECURSIVE keyValuesMap(_, _, _)
RECURSIVE KeyValuesChildren(_, _, _, _)

\* this._children.forEach(child => { mapToReturn = child.keyValuesMap(mapToReturn) })
KeyValuesChildren(h, children, i, mapToReturn) ==
    IF i > Len(children) THEN mapToReturn
    ELSE KeyValuesChildren(h, children, i + 1,
                           keyValuesMap(h, children[i].id, mapToReturn))

\* keyValuesMap as the object id answers it.  A condition has the method of
\* Query, which takes no parameter and starts from a new Map; a combination
\* has its own, which starts from the argument it is given.
keyValuesMap(h, id, mapToReturn) ==
    IF isCombinationOperator(h, id)
    THEN KeyValuesChildren(h, h[id].children, 1, mapToReturn)
    ELSE ConditionKeyValuesMap(h[id], MapOf(<<>>))

----------------------------------------------------------------------------
(* Rendering: toString and toSqlString *)

\* ${value} in a template literal
Interpolate(v) ==
    IF v = Null THEN <<"n","u","l","l">>
    ELSE IF v = Undefined THEN <<"u","n","d","e","f","i","n","e","d">>
    ELSE ToStringOf(v)

\* operatorSymbol()
operatorSymbol(h, id) == IF isBasicOperator(h, id) THEN <<"=">> ELSE <<"A","N","D">>

\* String.prototype.trim
RECURSIVE TrimStart(_)
TrimStart(s) == IF s # <<>> /\ Head(s) = " " THEN TrimStart(Tail(s)) ELSE s
RECURSIVE TrimEnd(_)
TrimEnd(s) ==
    IF s # <<>> /\ s[Len(s)] = " " THEN TrimEnd(SubSeq(s, 1, Len(s) - 1)) ELSE s
Trim(s) == TrimEnd(TrimStart(s))

RECURSIVE toString(_, _)
RECURSIVE ToStringChildren(_, _, _, _)

\* the forEach of CombinationBase.toString from child index on
ToStringChildren(h, id, index, ret) ==
    LET children == h[id].children IN
    IF index > Len(children) THEN ret
    ELSE LET child == children[index].id
             sep == IF index > 1 THEN <<" ">> \o operatorSymbol(h, id) ELSE <<>>
             open == IF isCombinationOperator(h, child) THEN <<"(">> ELSE <<>>
             close == IF isCombinationOperator(h, child) THEN <<")">> ELSE <<>>
         IN  ToStringChildren(h, id, index + 1,
                 ret \o sep \o <<" ">> \o open \o toString(h, child) \o close)

\* toString()
toString(h, id) ==
    IF isBasicOperator(h, id)
    THEN <<"\"">> \o Interpolate(fieldName(h, id)) \o <<"\"", " ">>
         \o operatorSymbol(h, id) \o <<" ", ":">> \o Interpolate(argumentName(h, id))
    ELSE LET ret == ToStringChildren(h, id, 1, <<>>)
             sym == operatorSymbol(h, id)
         IN  IF Len(h[id].children) = 1 /\ sym # <<"A","N","D">>
             THEN Trim(sym \o (IF ret # <<>> /\ Head(ret) = "("
                               THEN ret
                               ELSE <<"(", " ">> \o ret \o <<" ", ")">>))
             ELSE Trim(ret)

\* s.replace(/:[0-9]+/g, "?")
RECURSIVE SkipDigits(_)
SkipDigits(s) == IF s # <<>> /\ IsDigit(Head(s)) THEN SkipDigits(Tail(s)) ELSE s

RECURSIVE ReplacePlaceholders(_)
ReplacePlaceholders(s) ==
    IF s = <<>> THEN <<>>
    ELSE IF Head(s) = ":" /\ Len(s) > 1 /\ IsDigit(s[2])
         THEN <<"?">> \o ReplacePlaceholders(SkipDigits(Tail(s)))
         ELSE <<Head(s)>> \o ReplacePlaceholders(Tail(s))

\* toSqlString()
toSqlString(h, id) == ReplacePlaceholders(toString(h, id))

----------------------------------------------------------------------------
(* Rewriting: replaceQuery *)

RECURSIVE replaceQuery(_, _, _, _, _)
RECURSIVE ReplaceLoop(_, _, _, _, _, _)

\* a loop that returns at the first child it replaces
ReplaceLoopFirstMatchOnly(h, this, i, original, replacement, depth) ==
    IF i > Len(h[this].children) THEN [heap |-> h, result |-> Ref(this)]
    ELSE IF h[this].children[i] = original
         THEN [heap |-> [h EXCEPT ![this].children[i] = replacement],
               result |-> Ref(this)]
         ELSE LET sub == replaceQuery(h, h[this].children[i].id, original,
                                      replacement, depth + 1)
              IN  IF IsThrow(sub.result) THEN sub
                  ELSE ReplaceLoop(sub.heap, this, i + 1, original, replacement, depth)

\* the for loop of replaceQuery over the live children array of `this`, from
\* index i on; an exception raised by a nested call ends the loop and leaves
\* the writes made so far
ReplaceLoop(h, this, i, original, replacement, depth) ==
    IF i > Len(h[this].children) THEN [heap |-> h, result |-> Ref(this)]
    ELSE IF h[this].children[i] = original
         THEN ReplaceLoop([h EXCEPT ![this].children[i] = replacement],
                          this, i + 1, original, replacement, depth)
         ELSE LET sub == replaceQuery(h, h[this].children[i].id, original,
                                      replacement, depth + 1)
              IN  IF IsThrow(sub.result) THEN sub
                  ELSE ReplaceLoop(sub.heap, this, i + 1, original, replacement, depth)

\* this.replaceQuery(original, replacement) in call frame `depth`: the heap
\* after the call and the value returned, or the RangeError of a call stack
\* that is exhausted
replaceQuery(h, this, original, replacement, depth) ==
    IF depth > StackLimit
    THEN [heap |-> h, result |-> Throw("RangeError", Ref(this))]
    ELSE IF Ref(this) = original
    THEN [heap |-> h, result |-> replacement]
    ELSE IF isCombinationOperator(h, this)
    THEN ReplaceLoop(h, this, 1, original, replacement, depth)
    ELSE [heap |-> h, result |-> Ref(this)]

----------------------------------------------------------------------------
(* Construction *)

Ids(h) == 1..Len(h)
Refs(h) == {Ref(id) : id \in Ids(h)}

\* the argument mapping shared by the objects of a behaviour: "0" is bound to
\* 10, "1" is bound to null, "2" is not bound
SharedArgMap == MapOf(<< <<S_0, Num(10)>>, <<S_1, Null>> >>)

\* new ConditionBase(field, argName, defaultArgMap)
NewCondition(fields, argNames) ==
    \E field \in fields, argName \in argNames :
        /\ Len(heap) < MaxNodes
        /\ heap' = Append(heap, Condition(field, argName, SharedArgMap))
        /\ last' = [op |-> "new", result |-> Ref(Len(heap) + 1)]
        /\ UNCHANGED <<nameToTypeMap, idToTypeMap, rewrites>>

\* new CombinationBase(arg1, arg2, arg3) with arguments of the given shapes
NewCombinationOf(args1, args2, args3) ==
    \E arg1 \in args1, arg2 \in args2, arg3 \in args3 :
        LET made == CombinationBaseConstructor(arg1, arg2, arg3)
        IN  /\ Len(heap) < MaxNodes
            /\ IF IsThrow(made)
               THEN /\ heap' = heap
                    /\ last' = [op |-> "new", arg1 |-> arg1, arg2 |-> arg2,
                                arg3 |-> arg3, result |-> made]
               ELSE /\ heap' = Append(heap, made)
                    /\ last' = [op |-> "new", arg1 |-> arg1, arg2 |-> arg2,
                                arg3 |-> arg3, result |-> Ref(Len(heap) + 1)]
            /\ UNCHANGED <<nameToTypeMap, idToTypeMap, rewrites>>

ChildArrays(h) == {Arr(a) : a \in SeqsUpTo(Refs(h), MaxChildren)}

\* the two documented forms: (children, argMap) and (left, right, argMap)
NewCombination ==
    \/ NewCombinationOf(ChildArrays(heap), {SharedArgMap}, {Undefined})
    \/ NewCombinationOf(Refs(heap), Refs(heap), {SharedArgMap})

----------------------------------------------------------------------------
(* Calls of the constructor with arguments of any shape *)

CtorArgs1(h) == ChildArrays(h) \cup Refs(h) \cup {Null, Str(S_age), SharedArgMap}
CtorArgs2(h) == Refs(h) \cup {SharedArgMap, Null, Num(5), Arr(<<>>)}
CtorArgs3 == {SharedArgMap, Undefined, Null, Str(S_age)}

NewCombinationAnyShape == NewCombinationOf(CtorArgs1(heap), CtorArgs2(heap), CtorArgs3)

NextCtor ==
    \/ NewCondition({Str(S_age)}, {Str(S_0)})
    \/ NewCombinationAnyShape

SpecCtor == Init /\ [][NextCtor]_vars

\* the two accepted shapes: (sequence of predicates, mapping) and
\* (predicate, predicate, mapping)
AcceptedShape(arg1, arg2, arg3) ==
    \/ /\ IsArray(arg1)
       /\ \A i \in 1..Len(arg1.a) : IsQuery(arg1.a[i])
       /\ IsMap(arg2)
    \/ /\ IsQuery(arg1)
       /\ IsQuery(arg2)
       /\ IsMap(arg3)

\* C6: constructing a combination succeeds only for the two accepted argument
\* shapes; every other combination of shapes, a three-argument call whose
\* first or second argument is not a predicate included, fails with an error
\* and yields no combination.
C6_ConstructorRejectsOtherShapes ==
    (last.op = "new" /\ "arg1" \in DOMAIN last) =>
        (IsThrow(last.result) <=> ~AcceptedShape(last.arg1, last.arg2, last.arg3))

----------------------------------------------------------------------------
(* Calls of test and testWithArgMap *)

\* The calls that read the tree without changing it are made on the object
\* constructed last.  Every object is the newest one of some reachable heap,
\* and a constructor can only refer to objects that exist already, so what a
\* call on it reads is the same in that heap as in every later one.
Newest(h) == {id \in Ids(h) : id = Len(h)}

Candidates ==
    { MapOf(<< <<S_age, Num(10)>>, <<S_name, Null>> >>),
      MapOf(<< <<S_age, Null>>, <<S_name, Null>> >>),
      MapOf(<<>>),
      Num(5) }

\* the candidates with an entry for both fields
FullCandidates == {t \in Candidates : IsMap(t) /\ Len(t.m) = 2}

TestArgMaps ==
    { MapOf(<< <<S_0, Num(10)>>, <<S_1, Num(10)>> >>),
      MapOf(<<>>) }

Test(candidates) ==
    \E id \in Newest(heap), t \in candidates :
        /\ last' = [op |-> "test", this |-> id, t |-> t, result |-> test(heap, id, t)]
        /\ UNCHANGED <<heap, nameToTypeMap, idToTypeMap, rewrites>>

TestWithArgMap(candidates) ==
    \E id \in Newest(heap), t \in candidates, argMap \in TestArgMaps :
        /\ last' = [op |-> "testWithArgMap", this |-> id, t |-> t, argMap |-> argMap,
                    result |-> testWithArgMap(heap, id, t, argMap),
                    evaluated |-> childCalls(heap, id, t, argMap)]
        /\ UNCHANGED <<heap, nameToTypeMap, idToTypeMap, rewrites>>

\* trees of conditions and combinations, evaluated
NextTest ==
    \/ NewCondition({Str(S_age), Str(S_name)}, {Str(S_0)})
    \/ NewCombination
    \/ TestWithArgMap(FullCandidates \cup {MapOf(<<>>)})

SpecTest == Init /\ [][NextTest]_vars

\* conditions alone, evaluated with their own and with a given argument map
NextLeafTest ==
    \/ NewCondition({Str(S_age), Str(S_name)}, {Str(S_0), Str(S_1), Str(S_2)})
    \/ Test(Candidates)
    \/ TestWithArgMap(Candidates)

SpecLeafTest == Init /\ [][NextLeafTest]_vars

\* C1: a combination's testWithArgMap returns true if and only if it has at
\* least one child and every child's testWithArgMap returns true for the same
\* candidate and argument map; with no children it returns false.
C1_CombinationIsNonEmptyAnd ==
    (last.op = "testWithArgMap" /\ isCombinationOperator(heap, last.this)) =>
        LET children == heap[last.this].children
        IN  last.result =
                (/\ Len(children) > 0
                 /\ \A i \in 1..Len(children) :
                        testWithArgMap(heap, children[i].id, last.t, last.argMap))

\* a combination of two children, one of them a combination, matched
C1_Witness ==
    /\ last.op = "testWithArgMap"
    /\ isCombinationOperator(heap, last.this)
    /\ Len(heap[last.this].children) = 2
    /\ \E i \in 1..2 : isCombinationOperator(heap, heap[last.this].children[i].id)
    /\ last.result = TRUE

\* the first child position whose testWithArgMap does not match, or one past
\* the last position if every child matches
FirstNonMatching(h, children, t, argMap) ==
    LET failing == {i \in 1..Len(children) :
                       ~testWithArgMap(h, children[i].id, t, argMap)}
    IN  IF failing = {} THEN Len(children) + 1
        ELSE CHOOSE i \in failing : \A j \in failing : i <= j

\* C12: a combination's testWithArgMap calls its children in child order and
\* stops at the first child that does not match: the positions it calls are
\* 1, 2, .. up to and including the first non-matching one (all of them if
\* every child matches), each exactly once, and no later position is called.
C12_StopsAtFirstNonMatchingChild ==
    (last.op = "testWithArgMap" /\ isCombinationOperator(heap, last.this)) =>
        LET children == heap[last.this].children
            k == FirstNonMatching(heap, children, last.t, last.argMap)
            n == IF k > Len(children) THEN Len(children) ELSE k
        IN  last.evaluated = [j \in 1..n |-> j]

\* a combination of two children whose first child does not match although
\* its second would: only the first is called
C12_Witness ==
    /\ last.op = "testWithArgMap"
    /\ isCombinationOperator(heap, last.this)
    /\ Len(heap[last.this].children) = 2
    /\ ~testWithArgMap(heap, heap[last.this].children[1].id, last.t, last.argMap)
    /\ testWithArgMap(heap, heap[last.this].children[2].id, last.t, last.argMap)
    /\ last.evaluated = <<1>>

\* C2: for a condition with an ordinary field name and a key-value candidate,
\* testWithArgMap returns compare(fieldValue, argValue), where fieldValue is
\* the candidate's value for fieldName and argValue is the value the argument
\* map binds to argumentName (null only when it binds none); test does the
\* same with the condition's default argument map.
C2_LeafComparesBoundArgument ==
    (/\ last.op \in {"test", "testWithArgMap"}
     /\ isBasicOperator(heap, last.this)
     /\ IsMap(last.t)) =>
        LET node == heap[last.this]
            argMap == IF last.op = "test" THEN node.argMap ELSE last.argMap
            fieldValue == MapGet(last.t, node.fieldName.s)
            argValue == IF PairsHas(argMap.m, node.argName.s)
                        THEN MapGet(argMap, node.argName.s)
                        ELSE Null
        IN  last.result = testValues(fieldValue, argValue)

\* C11: for a condition with an ordinary field name, the call returns true
\* whenever the field value and the argument value it obtained are both
\* absent or null, and otherwise exactly when the two values are equal; so a
\* condition whose argument is unbound matches a key-value candidate with no
\* entry for its field, as it matches a candidate that is not a mapping.
C11_BothAbsentOrNullAreEqual ==
    (/\ last.op \in {"test", "testWithArgMap"}
     /\ isBasicOperator(heap, last.this)) =>
        LET node == heap[last.this]
            argMap == IF last.op = "test" THEN node.argMap ELSE last.argMap
            fieldValue == getFieldValue(last.t, node.fieldName)
            argValue == getArgumentValue(argMap, node.argName)
        IN  last.result =
                IF IsNullish(fieldValue) /\ IsNullish(argValue) THEN TRUE
                ELSE StrictEquals(fieldValue, argValue)

----------------------------------------------------------------------------
(* Calls of queryArgumentsArray, toSqlString and keyValuesMap *)

QueryArgumentsArray ==
    \E id \in Newest(heap) :
        /\ last' = [op |-> "queryArgumentsArray", this |-> id,
                    result |-> queryArgumentsArray(heap, id)]
        /\ UNCHANGED <<heap, nameToTypeMap, idToTypeMap, rewrites>>

ToSqlString ==
    \E id \in Newest(heap) :
        /\ last' = [op |-> "toSqlString", this |-> id, result |-> toSqlString(heap, id)]
        /\ UNCHANGED <<heap, nameToTypeMap, idToTypeMap, rewrites>>

\* keyValuesMap(new Map()) and, on the signature of Query, keyValuesMap()
KeyValuesMap ==
    \E id \in Newest(heap), mapToReturn \in {MapOf(<<>>), Undefined} :
        /\ last' = [op |-> "keyValuesMap", this |-> id, arg |-> mapToReturn,
                    result |-> keyValuesMap(heap, id, mapToReturn)]
        /\ UNCHANGED <<heap, nameToTypeMap, idToTypeMap, rewrites>>

NextIntrospect ==
    \/ NewCondition({Str(S_age), Str(S_name), Str(<<>>)}, {Str(S_0), Str(S_1), Str(S_2)})
    \/ NewCombination
    \/ QueryArgumentsArray
    \/ ToSqlString
    \/ KeyValuesMap

SpecIntrospect == Init /\ [][NextIntrospect]_vars

\* the conditions of the tree of id, depth first and left to right, one entry
\* for each position a condition is reached at
RECURSIVE LeavesInOrder(_, _)
LeavesInOrder(h, id) ==
    IF isBasicOperator(h, id) THEN <<id>>
    ELSE LET F[i \in 0..Len(h[id].children)] ==
                 IF i = 0 THEN <<>>
                 ELSE F[i - 1] \o LeavesInOrder(h, h[id].children[i].id)
         IN  F[Len(h[id].children)]

\* the subsequence of the elements of s that are in keep
RECURSIVE SelectInOrder(_, _)
SelectInOrder(s, keep) ==
    IF s = <<>> THEN <<>>
    ELSE IF Head(s) \in keep THEN <<Head(s)>> \o SelectInOrder(Tail(s), keep)
    ELSE SelectInOrder(Tail(s), keep)

\* the binding of the condition id for its argument in its default map
HasBinding(h, id) == PairsHas(h[id].argMap.m, h[id].argName.s)
BoundValue(h, id) == MapGet(h[id].argMap, h[id].argName.s)

\* C4: queryArgumentsArray() returns, in depth-first left-to-right order,
\* exactly the default argument values of the conditions whose argument is
\* bound to a non-null value; a condition whose argument is not bound, or is
\* bound to null, contributes no element.
C4_ArgumentsArrayIsBoundNonNull ==
    last.op = "queryArgumentsArray" =>
        LET setNonNull == {id \in Ids(heap) :
                               /\ isBasicOperator(heap, id)
                               /\ HasBinding(heap, id)
                               /\ BoundValue(heap, id) # Null}
            leaves == SelectInOrder(LeavesInOrder(heap, last.this), setNonNull)
        IN  last.result = [i \in 1..Len(leaves) |-> BoundValue(heap, leaves[i])]

\* C5: keyValuesMap of a combination returns one map that holds, for every
\* condition of its tree with a field name, that condition's default argument
\* value (or null) in the bucket of its field name, in encounter order.
C5_KeyValuesMapKeepsEveryChild ==
    (last.op = "keyValuesMap" /\ isCombinationOperator(heap, last.this)) =>
        LET leaves == LeavesInOrder(heap, last.this)
        IN  \A k \in 1..Len(leaves) :
                LET field == heap[leaves[k]].fieldName
                    onField == SelectInOrder(leaves,
                                   {id \in Ids(heap) : fieldName(heap, id) = field})
                IN  ~Falsy(field) =>
                        /\ IsMap(last.result)
                        /\ PairsGet(last.result.m, field.s) =
                               [i \in 1..Len(onField) |->
                                   defaultArgumentValue(heap, onField[i])]

\* the number of elements of s equal to c
RECURSIVE CountOf(_, _)
CountOf(s, c) ==
    IF s = <<>> THEN 0
    ELSE (IF Head(s) = c THEN 1 ELSE 0) + CountOf(Tail(s), c)

IsNumericName(v) ==
    /\ v.t = "string"
    /\ v.s # <<>>
    /\ \A i \in 1..Len(v.s) : IsDigit(v.s[i])

\* C8: when every condition's argument name is numeric, toSqlString() holds
\* one ? for each element of queryArgumentsArray(), the i-th ? rendered by the
\* condition that supplied the i-th element.
C8_PlaceholdersMatchArguments ==
    (/\ last.op = "toSqlString"
     /\ \A k \in 1..Len(LeavesInOrder(heap, last.this)) :
            IsNumericName(heap[LeavesInOrder(heap, last.this)[k]].argName)) =>
        LET leaves == LeavesInOrder(heap, last.this)
            arguments == queryArgumentsArray(heap, last.this)
        IN  /\ CountOf(last.result, "?") = Len(arguments)
            /\ Len(leaves) = Len(arguments)
            /\ \A i \in 1..Len(arguments) :
                    arguments[i] = defaultArgumentValue(heap, leaves[i])

----------------------------------------------------------------------------
(* Calls of fieldQueryMap *)

FieldQueryMap ==
    \E id \in Newest(heap) :
        /\ last' = [op |-> "fieldQueryMap", this |-> id,
                    result |-> MapOf(fieldQueryMap(heap, id, <<>>))]
        /\ UNCHANGED <<heap, nameToTypeMap, idToTypeMap, rewrites>>

NextFieldMap ==
    \/ NewCondition({Str(S_age), Str(S_name), Str(<<>>), Null}, {Str(S_0)})
    \/ NewCombination
    \/ FieldQueryMap

SpecFieldMap == Init /\ [][NextFieldMap]_vars

\* C10: fieldQueryMap() returns a map whose bucket for a field name lists the
\* conditions with that field name once for each position they are reached
\* at, in depth-first left-to-right order; a condition without a field name
\* is in no bucket, and no combination is in any bucket.
C10_FieldQueryMapBuckets ==
    last.op = "fieldQueryMap" =>
        LET leaves == LeavesInOrder(heap, last.this)
            named == {heap[leaves[k]].fieldName : k \in 1..Len(leaves)}
                     \ {Null, Str(<<>>)}
            buckets == last.result.m
        IN  /\ {buckets[i][1] : i \in 1..Len(buckets)} = {f.s : f \in named}
            /\ \A i, j \in 1..Len(buckets) : buckets[i][1] = buckets[j][1] => i = j
            /\ \A f \in named :
                   LET onField == SelectInOrder(leaves,
                                      {id \in Ids(heap) : fieldName(heap, id) = f})
                   IN  PairsGet(buckets, f.s) = [i \in 1..Len(onField) |-> Ref(onField[i])]
            /\ \A i \in 1..Len(buckets) : \A j \in 1..Len(buckets[i][2]) :
                   /\ isBasicOperator(heap, buckets[i][2][j].id)
                   /\ ~Falsy(heap[buckets[i][2][j].id].fieldName)

\* a nested tree: one condition reached at two positions, one in another
\* bucket, and no bucket for the combinations
C10_Witness ==
    /\ last.op = "fieldQueryMap"
    /\ isCombinationOperator(heap, last.this)
    /\ \E i \in 1..Len(heap[last.this].children) :
           isCombinationOperator(heap, heap[last.this].children[i].id)
    /\ \E i \in 1..Len(last.result.m) : Len(last.result.m[i][2]) = 2

----------------------------------------------------------------------------
(* Calls of replaceQuery *)

ReplaceQuery ==
    \E this \in Ids(heap), original \in Refs(heap), replacement \in Refs(heap) :
        LET r == replaceQuery(heap, this, original, replacement, 1)
        IN  /\ rewrites < MaxRewrites
            /\ rewrites' = rewrites + 1
            /\ heap' = r.heap
            /\ last' = [op |-> "replaceQuery", this |-> this, original |-> original,
                        replacement |-> replacement, before |-> heap,
                        result |-> r.result]
            /\ UNCHANGED <<nameToTypeMap, idToTypeMap>>

\* new CombinationBase(left, right, argMap): the three-argument form builds
\* the combinations of two children, and with null for an absent child those
\* of one child and of none
NewCombinationOfUpToTwo ==
    NewCombinationOf(Refs(heap) \cup {Null}, Refs(heap) \cup {Null}, {SharedArgMap})

NextReplace ==
    \/ NewCondition({Str(S_age)}, {Str(S_0)})
    \/ NewCombinationOfUpToTwo
    \/ ReplaceQuery

SpecReplace == Init /\ [][NextReplace]_vars

\* the children of the object id, as ids
ChildIds(h, id) ==
    IF isCombinationOperator(h, id)
    THEN {h[id].children[i].id : i \in 1..Len(h[id].children)}
    ELSE {}

\* the objects reachable from those of `seen` through children arrays
RECURSIVE ReachableFrom(_, _)
ReachableFrom(h, seen) ==
    LET more == seen \cup UNION {ChildIds(h, id) : id \in seen}
    IN  IF more = seen THEN seen ELSE ReachableFrom(h, more)

\* the objects of the tree of root, root included
TreeOf(h, root) == ReachableFrom(h, {root})

\* the child positions <<parent, index>> of the tree of root that hold id
PositionsOf(h, root, id) ==
    {<<n, i>> \in TreeOf(h, root) \X (1..MaxNodes) :
        /\ isCombinationOperator(h, n)
        /\ i <= Len(h[n].children)
        /\ h[n].children[i].id = id}

\* The structure under root is a tree in which `original` may occur at
\* several positions: nothing is reachable from itself, and no combination but
\* original holds two child positions.
IsTreeButFor(h, root, original) ==
    \A id \in TreeOf(h, root) :
        /\ id \notin ReachableFrom(h, ChildIds(h, id))
        /\ (isCombinationOperator(h, id) /\ Ref(id) # original) =>
               Cardinality(PositionsOf(h, root, id)) <= 1

\* C3: r = root.replaceQuery(original, replacement) on a tree: if root is
\* original, r is replacement and nothing is written; otherwise r is root,
\* every child position of root's tree that held original holds replacement
\* (at any depth, and at each of several positions), and every other child
\* position of any object is as it was.
C3_ReplaceQueryRewritesEveryOccurrence ==
    (/\ last.op = "replaceQuery"
     /\ IsTreeButFor(last.before, last.this, last.original)) =>
        IF Ref(last.this) = last.original
        THEN last.result = last.replacement /\ heap = last.before
        ELSE /\ last.result = Ref(last.this)
             /\ Len(heap) = Len(last.before)
             /\ \A id \in Ids(heap) :
                    IF isCombinationOperator(last.before, id)
                    THEN heap[id] =
                            [last.before[id] EXCEPT !.children =
                                [i \in 1..Len(last.before[id].children) |->
                                    IF /\ id \in TreeOf(last.before, last.this)
                                       /\ last.before[id].children[i] = last.original
                                    THEN last.replacement
                                    ELSE last.before[id].children[i]]]
                    ELSE heap[id] = last.before[id]

\* original held two positions at different depths of the tree, and both hold
\* the replacement
C3_Witness ==
    /\ last.op = "replaceQuery"
    /\ IsTreeButFor(last.before, last.this, last.original)
    /\ Ref(last.this) # last.original
    /\ last.replacement # last.original
    /\ last.result = Ref(last.this)
    /\ \E n \in Ids(heap) :
           /\ n # last.this
           /\ {<<last.this, 1>>, <<n, 1>>}
                  \subseteq PositionsOf(last.before, last.this, last.original.id)
           /\ heap[last.this].children[1] = last.replacement
           /\ heap[n].children[1] = last.replacement

\* nothing in the structure under root is reachable from its own children
Acyclic(h, root) ==
    \A id \in TreeOf(h, root) : id \notin ReachableFrom(h, ChildIds(h, id))

\* the structure under root is a tree: acyclic, and every object of it is
\* held at one child position at most
IsTree(h, root) ==
    /\ Acyclic(h, root)
    /\ \A id \in TreeOf(h, root) : Cardinality(PositionsOf(h, root, id)) <= 1

\* C13: if the receiver's structure is a tree and the replacement's structure
\* is acyclic before root.replaceQuery(original, replacement), whatever
\* objects original and replacement are, then the structure reachable from
\* the returned object is acyclic: no combination is reachable from its own
\* children array.
C13_ReplaceQueryKeepsAcyclic ==
    (/\ last.op = "replaceQuery"
     /\ IsQuery(last.result)
     /\ IsTree(last.before, last.this)
     /\ Acyclic(last.before, last.replacement.id)) =>
        Acyclic(heap, last.result.id)

====
